---- MODULE Spec2Model ----
(***************************************************************************)
(* Model of src/example/serve.py: a static file server that generates      *)
(* /config.js from the KEY=VALUE file webapp.env on every request.         *)
(*                                                                         *)
(* Text is modelled by TLA+ strings (sequences of characters), so that     *)
(* strip(), startswith(), split('=', 1) and the f-string rendering are     *)
(* computed character by character as Python computes them.  Bytes are     *)
(* modelled as one-element tokens: an ASCII character is its own byte, a   *)
(* non-ASCII character encodes to several tokens.                          *)
(***************************************************************************)
EXTENDS Integers, Sequences, FiniteSets, TLC

VARIABLES
    envExists,   \* webapp.env exists beside the program
    envText,     \* its contents ("" when absent)
    staticFiles, \* names of the other files present in the program's directory
    pc,          \* position of the (single-threaded) server process
    caller,      \* who called load_env_file: "main" or "handler"
    path,        \* self.path of the request being handled ("" when idle)
    env_vars,    \* the local env_vars of the running load_env_file / do_GET
    warned,      \* the "not found" warning was printed by the running load
    startupEnv,  \* env_vars of main(): the configuration displayed at startup
    response,    \* the response written for the request being handled
    races,       \* external file-system steps taken while the server was busy
    seen         \* history: the states webapp.env went through during the
                 \* running load_env_file call

vars == <<envExists, envText, staticFiles, pc, caller, path, env_vars, warned,
          startupEnv, response, races, seen>>

(***************************************************************************)
(* Bounds of the model.                                                    *)
(***************************************************************************)
MaxLines == 2
MaxRaces == 1

(***************************************************************************)
(* Python string primitives used by the program.                           *)
(***************************************************************************)
Whitespace == {" ", "\t", "\n", "\r", "\f"}

RECURSIVE lstrip(_)
lstrip(s) ==
    IF Len(s) > 0 /\ SubSeq(s, 1, 1) \in Whitespace
    THEN lstrip(SubSeq(s, 2, Len(s)))
    ELSE s

RECURSIVE rstrip(_)
rstrip(s) ==
    IF Len(s) > 0 /\ SubSeq(s, Len(s), Len(s)) \in Whitespace
    THEN rstrip(SubSeq(s, 1, Len(s) - 1))
    ELSE s

strip(s) == rstrip(lstrip(s))

startswith(s, p) == Len(s) >= Len(p) /\ SubSeq(s, 1, Len(p)) = p

\* s.find(c) for a one-character c, 1-based; 0 when c does not occur
RECURSIVE find(_, _)
find(s, c) ==
    IF Len(s) = 0 THEN 0
    ELSE IF SubSeq(s, 1, 1) = c THEN 1
    ELSE LET r == find(SubSeq(s, 2, Len(s)), c) IN IF r = 0 THEN 0 ELSE r + 1

\* s.rfind(c), 1-based; 0 when c does not occur
RECURSIVE rfind(_, _)
rfind(s, c) ==
    IF Len(s) = 0 THEN 0
    ELSE IF SubSeq(s, Len(s), Len(s)) = c THEN Len(s)
    ELSE rfind(SubSeq(s, 1, Len(s) - 1), c)

contains(s, c) == find(s, c) > 0

\* s.split(c, 1) for an s that contains c
split1(s, c) ==
    LET i == find(s, c) IN <<SubSeq(s, 1, i - 1), SubSeq(s, i + 1, Len(s))>>

\* iteration over a text file: the lines, each with its terminating newline
RECURSIVE readlines(_)
readlines(text) ==
    IF Len(text) = 0 THEN <<>>
    ELSE LET i == find(text, "\n") IN
         IF i = 0 THEN <<text>>
         ELSE <<SubSeq(text, 1, i)>> \o readlines(SubSeq(text, i + 1, Len(text)))

\* str.encode(): UTF-8, one token per byte
Utf8(c) == IF c = "é" THEN <<"0xC3", "0xA9">> ELSE <<c>>

\* the bytes of the characters in order (computed by halves)
RECURSIVE encode(_)
encode(s) ==
    IF Len(s) = 0 THEN <<>>
    ELSE IF Len(s) = 1 THEN Utf8(s)
    ELSE LET h == Len(s) \div 2 IN
         encode(SubSeq(s, 1, h)) \o encode(SubSeq(s, h + 1, Len(s)))

(***************************************************************************)
(* Dictionaries: functions from keys to values.                            *)
(***************************************************************************)
EmptyDict == [k \in {} |-> ""]

put(d, k, v) == [q \in DOMAIN d \cup {k} |-> IF q = k THEN v ELSE d[q]]

\* variant: "d.get(k) or default", an empty value falls back to the default
get_or(d, k, default) == IF k \in DOMAIN d /\ d[k] # "" THEN d[k] ELSE default

get(d, k, default) == IF k \in DOMAIN d THEN d[k] ELSE default

(***************************************************************************)
(* load_env_file: the body of the line loop, and the loop.                 *)
(***************************************************************************)
\* variant: the '#' test is missing
parse_line_keeps_comments(env, raw) ==
    LET line == strip(raw) IN
    IF line # "" /\ contains(line, "=")
    THEN LET kv == split1(line, "=") IN put(env, strip(kv[1]), strip(kv[2]))
    ELSE env

\* variant: str.partition instead of the '=' test, a bare word becomes a key
parse_line_partition(env, raw) ==
    LET line == strip(raw) IN
    IF line # "" /\ ~startswith(line, "#")
    THEN IF contains(line, "=")
         THEN LET kv == split1(line, "=") IN put(env, strip(kv[1]), strip(kv[2]))
         ELSE put(env, line, "")
    ELSE env

\* variant: rsplit('=', 1), the line is cut at its last '='
parse_line_rsplit(env, raw) ==
    LET line == strip(raw) IN
    IF line # "" /\ ~startswith(line, "#") /\ contains(line, "=")
    THEN LET i == rfind(line, "=") IN
         put(env, strip(SubSeq(line, 1, i - 1)), strip(SubSeq(line, i + 1, Len(line))))
    ELSE env

\* variant: setdefault, the first definition of a key wins
parse_line_setdefault(env, raw) ==
    LET line == strip(raw) IN
    IF line # "" /\ ~startswith(line, "#") /\ contains(line, "=")
    THEN LET kv == split1(line, "=") IN
         IF strip(kv[1]) \in DOMAIN env THEN env
         ELSE put(env, strip(kv[1]), strip(kv[2]))
    ELSE env

\* lines 21-25
parse_line(env, raw) ==
    LET line == strip(raw) IN
    IF line # "" /\ ~startswith(line, "#")
    THEN IF contains(line, "=")
         THEN LET kv == split1(line, "=") IN put(env, strip(kv[1]), strip(kv[2]))
         ELSE env
    ELSE env

\* lines 20-25: for line in f
RECURSIVE load_lines(_, _)
load_lines(lines, env) ==
    IF lines = <<>> THEN env
    ELSE load_lines(Tail(lines), parse_line(env, Head(lines)))

\* variant: a default mapping with a mistyped interval
DefaultEnvMistyped ==
    [k \in {"N8N_API_BASE_URL", "N8N_API_KEY", "REFRESH_INTERVAL", "DEBUG_MODE"} |->
        CASE k = "N8N_API_BASE_URL" -> "http://localhost:5678/api/v1"
          [] k = "N8N_API_KEY"      -> "your-api-key-here"
          [] k = "REFRESH_INTERVAL" -> "3000"
          [] k = "DEBUG_MODE"       -> "false"]

\* lines 28-33
DefaultEnv ==
    [k \in {"N8N_API_BASE_URL", "N8N_API_KEY", "REFRESH_INTERVAL", "DEBUG_MODE"} |->
        CASE k = "N8N_API_BASE_URL" -> "http://localhost:5678/api/v1"
          [] k = "N8N_API_KEY"      -> "your-api-key-here"
          [] k = "REFRESH_INTERVAL" -> "30000"
          [] k = "DEBUG_MODE"       -> "false"]

(***************************************************************************)
(* do_GET: the rendering of config.js.                                     *)
(***************************************************************************)
\* variant: the last two entries are written in the other order
config_content_reordered(env) ==
    "// Auto-generated configuration from webapp.env\n"
    \o "// This file is generated at server startup\n"
    \o "\n"
    \o "window.ENV = {\n"
    \o "    N8N_API_BASE_URL: '"
    \o get(env, "N8N_API_BASE_URL", "http://localhost:5678/api/v1") \o "',\n"
    \o "    N8N_API_KEY: '"
    \o get(env, "N8N_API_KEY", "your-api-key-here") \o "',\n"
    \o "    DEBUG_MODE: '"
    \o get(env, "DEBUG_MODE", "false") \o "',\n"
    \o "    REFRESH_INTERVAL: '"
    \o get(env, "REFRESH_INTERVAL", "30000") \o "'\n"
    \o "};\n"

\* lines 54-63
config_content(env) ==
    "// Auto-generated configuration from webapp.env\n"
    \o "// This file is generated at server startup\n"
    \o "\n"
    \o "window.ENV = {\n"
    \o "    N8N_API_BASE_URL: '"
    \o get(env, "N8N_API_BASE_URL", "http://localhost:5678/api/v1") \o "',\n"
    \o "    N8N_API_KEY: '"
    \o get(env, "N8N_API_KEY", "your-api-key-here") \o "',\n"
    \o "    REFRESH_INTERVAL: '"
    \o get(env, "REFRESH_INTERVAL", "30000") \o "',\n"
    \o "    DEBUG_MODE: '"
    \o get(env, "DEBUG_MODE", "false") \o "'\n"
    \o "};\n"

\* variant: no CORS headers
end_headers_plain(headers) == headers

\* lines 42-47
end_headers(headers) ==
    headers \o << <<"Access-Control-Allow-Origin", "*">>,
                  <<"Access-Control-Allow-Methods", "GET, POST, OPTIONS">>,
                  <<"Access-Control-Allow-Headers", "Content-Type">> >>

NoResponse == [status |-> 0, headers |-> <<>>, body |-> <<>>]

\* lines 65-69
config_response(env) ==
    LET config_content_ == config_content(env) IN
    [status  |-> 200,
     headers |-> end_headers(<< <<"Content-type", "application/javascript">>,
                                <<"Content-Length", ToString(Len(encode(config_content_)))>> >>),
     body    |-> encode(config_content_)]

(***************************************************************************)
(* The static branch, super().do_GET(), is the standard library's          *)
(* SimpleHTTPRequestHandler rooted at the program's directory (line 40).   *)
(* It is modelled for plain files: the path is translated to a file name   *)
(* (query dropped), an existing file is sent with status 200, a missing    *)
(* one is answered by send_error(404).  Both end through self.end_headers, *)
(* the override of lines 42-47.  The Server and Date headers that          *)
(* send_response adds to every response are left out.                      *)
(***************************************************************************)
translate_path(p) ==
    LET q     == find(p, "?")
        noq   == IF q = 0 THEN p ELSE SubSeq(p, 1, q - 1)
    IN  IF startswith(noq, "/") THEN SubSeq(noq, 2, Len(noq)) ELSE noq

endswith(s, p) == Len(s) >= Len(p) /\ SubSeq(s, Len(s) - Len(p) + 1, Len(s)) = p

guess_type(name) ==
    IF endswith(name, ".html") THEN "text/html"
    ELSE IF endswith(name, ".js") THEN "text/javascript"
    ELSE "application/octet-stream"

\* contents of the files that may lie in the program's directory
FileText(name) ==
    IF name = "index.html" THEN "<script src=config.js></script>"
    ELSE "window.ENV = {};"

ErrorPage == "Error response: 404 File not found"

static_response(p, exists, text, files) ==
    LET name  == translate_path(p)
        found == (name = "webapp.env" /\ exists) \/ name \in files
        bytes == IF name = "webapp.env" THEN encode(text) ELSE encode(FileText(name))
    IN  IF found
        THEN [status  |-> 200,
              headers |-> end_headers(<< <<"Content-type", guess_type(name)>>,
                                         <<"Content-Length", ToString(Len(bytes))>> >>),
              body    |-> bytes]
        ELSE [status  |-> 404,
              headers |-> end_headers(<< <<"Content-Type", "text/html;charset=utf-8">>,
                                         <<"Content-Length", ToString(Len(encode(ErrorPage)))>> >>),
              body    |-> encode(ErrorPage)]

(***************************************************************************)
(* Inputs: the lines an external editor may append to webapp.env, the      *)
(* request paths, and the files that may lie beside the program.           *)
(***************************************************************************)
LineSet ==
    { "N8N_API_KEY=abc123",
      "# REFRESH_INTERVAL=1",
      "REFRESH_INTERVAL=5000",
      "\t DEBUG_MODE = true  ",
      "N8N_API_KEY=",
      "N8N_API_BASE_URL=http://h/?a=b",
      "FOO=bar",
      "DEBUG_MODE",
      "  ",
      "  #DEBUG_MODE=x",
      "N8N_API_KEY=café",
      "=orphan" }

\* the file of the specification's example, its last line unterminated
InitText == "N8N_API_KEY=abc123\n# comment\nREFRESH_INTERVAL=5000"

Paths == {"/config.js", "/config.js?v=1", "/index.html", "/webapp.env"}

StaticNames == {"index.html", "config.js"}

EnvState == <<envExists, envText>>

(***************************************************************************)
(* The state after the process has started: main() is about to call        *)
(* load_env_file (line 82).                                                *)
(***************************************************************************)
Init ==
    /\ envExists = TRUE
    /\ envText = InitText
    /\ staticFiles = {"index.html"}
    /\ pc = "exists"
    /\ caller = "main"
    /\ path = ""
    /\ env_vars = EmptyDict
    /\ warned = FALSE
    /\ startupEnv = EmptyDict
    /\ response = NoResponse
    /\ races = 0
    /\ seen = {<<TRUE, InitText>>}

(***************************************************************************)
(* load_env_file, lines 14-35.  The existence test and the open are two    *)
(* system calls; the file is read in one piece when it is opened (the      *)
(* text layer reads a file of this size in a single buffer fill).          *)
(***************************************************************************)
\* line 18, and lines 26-33 when the file is absent
load_exists ==
    /\ pc = "exists"
    /\ IF envExists
       THEN /\ pc' = "open"
            /\ UNCHANGED <<env_vars, warned>>
       ELSE /\ pc' = "loaded"
            /\ warned' = TRUE
            /\ env_vars' = DefaultEnv
    /\ UNCHANGED <<envExists, envText, staticFiles, caller, path, startupEnv,
                   response, races, seen>>

\* lines 19-25
load_open ==
    /\ pc = "open"
    /\ envExists
    /\ env_vars' = load_lines(readlines(envText), EmptyDict)
    /\ pc' = "loaded"
    /\ UNCHANGED <<envExists, envText, staticFiles, caller, path, warned,
                   startupEnv, response, races, seen>>

\* line 19 when the file has vanished since line 18: open() raises
\* FileNotFoundError, which main() does not catch and which the server's
\* handle_error catches for a request
load_open_fails ==
    /\ pc = "open"
    /\ ~envExists
    /\ pc' = IF caller = "main" THEN "crashed" ELSE "error"
    /\ UNCHANGED <<envExists, envText, staticFiles, caller, path, env_vars,
                   warned, startupEnv, response, races, seen>>

\* lines 82-95: main() displays the configuration and starts serving
main_serve ==
    /\ pc = "loaded"
    /\ caller = "main"
    /\ startupEnv' = env_vars
    /\ env_vars' = EmptyDict
    /\ warned' = FALSE
    /\ pc' = "idle"
    /\ races' = 0
    /\ seen' = {}
    /\ UNCHANGED <<envExists, envText, staticFiles, caller, path, response>>

(***************************************************************************)
(* do_GET, lines 49-72.                                                    *)
(***************************************************************************)
\* variant: the path is compared after its query string is dropped
is_config_path_no_query(p) == translate_path(p) = "config.js"

\* line 51
is_config_path(p) == p = "/config.js"

\* a GET request arrives; lines 51-52 or 70-72 choose the branch
do_GET(p) ==
    /\ pc = "idle"
    /\ path' = p
    /\ caller' = "handler"
    /\ IF is_config_path(p)
       THEN /\ pc' = "exists"
            /\ seen' = {EnvState}
       ELSE /\ pc' = "static"
            /\ seen' = {}
    /\ UNCHANGED <<envExists, envText, staticFiles, env_vars, warned,
                   startupEnv, response, races>>

\* variant: the configuration loaded by main() is rendered
do_GET_config_cached ==
    /\ pc = "loaded"
    /\ caller = "handler"
    /\ response' = config_response(startupEnv)
    /\ pc' = "sent"
    /\ UNCHANGED <<envExists, envText, staticFiles, caller, path, env_vars,
                   warned, startupEnv, races, seen>>

\* lines 54-69
do_GET_config ==
    /\ pc = "loaded"
    /\ caller = "handler"
    /\ response' = config_response(env_vars)
    /\ pc' = "sent"
    /\ UNCHANGED <<envExists, envText, staticFiles, caller, path, env_vars,
                   warned, startupEnv, races, seen>>

\* line 72
do_GET_static ==
    /\ pc = "static"
    /\ response' = static_response(path, envExists, envText, staticFiles)
    /\ pc' = "sent"
    /\ UNCHANGED <<envExists, envText, staticFiles, caller, path, env_vars,
                   warned, startupEnv, races, seen>>

\* the handler returns: the response is flushed and the connection closed
finish ==
    /\ pc = "sent"
    /\ pc' = "idle"
    /\ path' = ""
    /\ env_vars' = EmptyDict
    /\ warned' = FALSE
    /\ response' = NoResponse
    /\ races' = 0
    /\ seen' = {}
    /\ UNCHANGED <<envExists, envText, staticFiles, caller, startupEnv>>

\* an exception left do_GET: the server logs it and closes the connection
\* without a response (line 95, serve_forever)
handle_error ==
    /\ pc = "error"
    /\ pc' = "idle"
    /\ path' = ""
    /\ env_vars' = EmptyDict
    /\ warned' = FALSE
    /\ response' = NoResponse
    /\ races' = 0
    /\ seen' = {}
    /\ UNCHANGED <<envExists, envText, staticFiles, caller, startupEnv>>

(***************************************************************************)
(* The environment: other processes edit, create and remove files in the   *)
(* program's directory.  The program itself never writes.                  *)
(***************************************************************************)
\* bookkeeping of an external step that leaves webapp.env as <<e, t>>
External(e, t) ==
    /\ pc # "crashed"
    /\ pc = "idle" \/ races < MaxRaces
    /\ races' = IF pc = "idle" THEN races ELSE races + 1
    /\ seen' = IF pc \in {"exists", "open"} THEN seen \cup {<<e, t>>} ELSE seen
    /\ UNCHANGED <<pc, caller, path, env_vars, warned, startupEnv, response>>

AppendLine(l) ==
    /\ envExists
    /\ Len(readlines(envText)) < MaxLines
    /\ envText' = envText \o l \o "\n"
    /\ External(TRUE, envText')
    /\ UNCHANGED <<envExists, staticFiles>>

Truncate ==
    /\ envExists
    /\ envText # ""
    /\ envText' = ""
    /\ External(TRUE, "")
    /\ UNCHANGED <<envExists, staticFiles>>

RemoveEnv ==
    /\ envExists
    /\ envExists' = FALSE
    /\ envText' = ""
    /\ External(FALSE, "")
    /\ UNCHANGED staticFiles

CreateEnv ==
    /\ ~envExists
    /\ envExists' = TRUE
    /\ envText' = ""
    /\ External(TRUE, "")
    /\ UNCHANGED staticFiles

PutStatic(n) ==
    /\ n \notin staticFiles
    /\ staticFiles' = staticFiles \cup {n}
    /\ External(envExists, envText)
    /\ UNCHANGED <<envExists, envText>>

RemoveStatic(n) ==
    /\ n \in staticFiles
    /\ staticFiles' = staticFiles \ {n}
    /\ External(envExists, envText)
    /\ UNCHANGED <<envExists, envText>>

Environment ==
    \/ \E l \in LineSet : AppendLine(l)
    \/ Truncate
    \/ RemoveEnv
    \/ CreateEnv
    \/ \E n \in StaticNames : PutStatic(n)
    \/ \E n \in StaticNames : RemoveStatic(n)

Server ==
    \/ load_exists
    \/ load_open
    \/ main_serve
    \/ \E p \in Paths : do_GET(p)
    \/ do_GET_config
    \/ do_GET_static
    \/ finish

(***************************************************************************)
(* Spec: requests and external edits form one sequence, an edit falls      *)
(* between two requests.  SpecRace: external steps also fall between the   *)
(* steps of a running load_env_file.                                       *)
(***************************************************************************)
Next == Server \/ (pc = "idle" /\ Environment)

Spec == Init /\ [][Next]_vars

NextRace == Server \/ Environment \/ load_open_fails \/ handle_error

SpecRace == Init /\ [][NextRace]_vars

(***************************************************************************)
(* The vocabulary of the properties.  These definitions describe a         *)
(* KEY=VALUE file by positions and quantifiers; they do not use the        *)
(* operators that model the program's parsing and rendering.               *)
(***************************************************************************)
Char(s, i) == SubSeq(s, i, i)

Blank == {" ", "\t", "\n", "\r", "\f"}

Least(S) == CHOOSE x \in S : \A y \in S : x <= y

Greatest(S) == CHOOSE x \in S : \A y \in S : y <= x

\* s without its leading and trailing blanks
Trimmed(s) ==
    LET solid == {i \in 1..Len(s) : Char(s, i) \notin Blank} IN
    IF solid = {} THEN "" ELSE SubSeq(s, Least(solid), Greatest(solid))

\* the positions at which the lines of a text start
LineStarts(text) == {i \in 1..Len(text) : i = 1 \/ Char(text, i - 1) = "\n"}

\* the line starting at st, without its newline
LineText(text, st) ==
    LET stops == {j \in st..Len(text) : Char(text, j) = "\n"} \cup {Len(text) + 1}
    IN  SubSeq(text, st, Least(stops) - 1)

IsBlankLine(ln) == \A i \in 1..Len(ln) : Char(ln, i) \in Blank

BeginsWithHash(ln) == Len(ln) > 0 /\ Char(ln, 1) = "#"

\* position of the first '=' of a line, 0 when it has none
FirstEq(ln) ==
    LET eqs == {i \in 1..Len(ln) : Char(ln, i) = "="} IN
    IF eqs = {} THEN 0 ELSE Least(eqs)

KeyOf(ln) == Trimmed(SubSeq(ln, 1, FirstEq(ln) - 1))

ValueOf(ln) == Trimmed(SubSeq(ln, FirstEq(ln) + 1, Len(ln)))

\* a non-empty, non-comment line that contains '='
Assigns(ln) == ~IsBlankLine(ln) /\ ~BeginsWithHash(Trimmed(ln)) /\ FirstEq(ln) > 0

\* the lines of a text that define key k
Defining(text, k) ==
    {st \in LineStarts(text) : Assigns(LineText(text, st)) /\ KeyOf(LineText(text, st)) = k}

\* the text made of the lines starting at the positions S, in order
RECURSIVE JoinLines(_, _)
JoinLines(text, S) ==
    IF S = {} THEN ""
    ELSE LineText(text, Least(S)) \o "\n" \o JoinLines(text, S \ {Least(S)})

KnownKeys == {"N8N_API_BASE_URL", "N8N_API_KEY", "REFRESH_INTERVAL", "DEBUG_MODE"}

\* the documented defaults
Documented ==
    [k \in KnownKeys |->
        CASE k = "N8N_API_BASE_URL" -> "http://localhost:5678/api/v1"
          [] k = "N8N_API_KEY"      -> "your-api-key-here"
          [] k = "REFRESH_INTERVAL" -> "30000"
          [] k = "DEBUG_MODE"       -> "false"]

\* the value a file gives a known key: that of the last line defining it,
\* the documented default when no line does
FileValue(text, k) ==
    IF Defining(text, k) = {} THEN Documented[k]
    ELSE ValueOf(LineText(text, Greatest(Defining(text, k))))

Entry(k, v) == "    " \o k \o ": '" \o v \o "'"

\* the payload that shows the values v for the four known keys, in order
PayloadOf(v) ==
    "// Auto-generated configuration from webapp.env\n"
    \o "// This file is generated at server startup\n\n"
    \o "window.ENV = {\n"
    \o Entry("N8N_API_BASE_URL", v["N8N_API_BASE_URL"]) \o ",\n"
    \o Entry("N8N_API_KEY", v["N8N_API_KEY"]) \o ",\n"
    \o Entry("REFRESH_INTERVAL", v["REFRESH_INTERVAL"]) \o ",\n"
    \o Entry("DEBUG_MODE", v["DEBUG_MODE"]) \o "\n"
    \o "};\n"

\* the number of bytes of the UTF-8 form of s
ByteLength(s) == Len(s) + Cardinality({i \in 1..Len(s) : Char(s, i) = "é"})

HasHeader(r, name, value) ==
    \E i \in 1..Len(r.headers) : r.headers[i] = <<name, value>>

\* the byte string sub occurs in the byte string b
Occurs(sub, b) ==
    \E i \in 0..(Len(b) - Len(sub)) : SubSeq(b, i + 1, i + Len(sub)) = sub

\* the payload b shows value v for key k
Shows(b, k, v) ==
    Occurs(encode(Entry(k, v) \o (IF k = "DEBUG_MODE" THEN "\n" ELSE ",\n")), b)

\* every line is blank, a comment, or has the form KEY=VALUE
WellFormed(text) ==
    \A st \in LineStarts(text) :
        LET ln == LineText(text, st) IN
        IsBlankLine(ln) \/ BeginsWithHash(Trimmed(ln)) \/ FirstEq(ln) > 0

\* a response to GET /config.js has been written
RespondedConfig == pc = "sent" /\ path = "/config.js"

\* load_env_file has returned to do_GET
LoadedForRequest == pc = "loaded" /\ caller = "handler"

\* what load_env_file returns for a state <<exists, text>> of the file
MappingOf(v) ==
    IF v[1] THEN load_lines(readlines(v[2]), EmptyDict) ELSE DefaultEnv

(***************************************************************************)
(* Properties.                                                             *)
(***************************************************************************)

C2_KnownKeysRendered ==
    (RespondedConfig /\ envExists /\ WellFormed(envText)) =>
        response.body = encode(PayloadOf([k \in KnownKeys |-> FileValue(envText, k)]))

\* C2 witness: a well-formed file that defines an unknown key and one known
\* key, and leaves another known key to its default.
C2_Witness ==
    /\ RespondedConfig
    /\ envExists
    /\ WellFormed(envText)
    /\ Defining(envText, "FOO") # {}
    /\ Defining(envText, "REFRESH_INTERVAL") # {}
    /\ Defining(envText, "N8N_API_KEY") = {}

\* C3: when webapp.env is absent, load_env_file warns and returns the four
\* default entries, and GET /config.js is answered 200 with the payload of
\* the defaults.
C3_AbsentFileDefaults ==
    /\ (LoadedForRequest /\ ~envExists) =>
            (warned /\ env_vars = [k \in KnownKeys |-> Documented[k]])
    /\ (RespondedConfig /\ ~envExists) =>
            /\ response.status = 200
            /\ response.body = encode(PayloadOf(Documented))

\* C3 witness: a response to GET /config.js written while the file is absent.
C3_Witness ==
    /\ RespondedConfig
    /\ ~envExists
    /\ warned
    /\ response.status = 200

\* the lines the loader must skip whatever they contain
SkippedLine(ln) == IsBlankLine(ln) \/ BeginsWithHash(ln)

\* C4: blank lines and lines beginning with '#' contribute nothing: the
\* mapping is that of the file with those lines removed.
C4_CommentsAndBlanksIgnored ==
    (pc = "loaded" /\ envExists) =>
        env_vars = MappingOf(<<TRUE,
            JoinLines(envText, {st \in LineStarts(envText) :
                                    ~SkippedLine(LineText(envText, st))})>>)

\* C4 witness: a loaded file with a '#' line that contains '=' beside a line
\* that defines a key.
C4_Witness ==
    /\ LoadedForRequest
    /\ envExists
    /\ \E st \in LineStarts(envText) :
           BeginsWithHash(LineText(envText, st)) /\ FirstEq(LineText(envText, st)) > 0
    /\ DOMAIN env_vars # {}

\* a non-comment line without '='
BareLine(ln) == ~BeginsWithHash(ln) /\ FirstEq(ln) = 0

\* C5: a non-comment line without '=' is ignored: the load completes and
\* the mapping is that of the file without such lines.
C5_LinesWithoutEqualsIgnored ==
    (pc = "loaded" /\ envExists) =>
        env_vars = MappingOf(<<TRUE,
            JoinLines(envText, {st \in LineStarts(envText) :
                                    ~BareLine(LineText(envText, st))})>>)

\* C5 witness: a loaded file with a bare word on one line and a definition
\* on another.
C5_Witness ==
    /\ LoadedForRequest
    /\ envExists
    /\ \E st \in LineStarts(envText) :
           BareLine(LineText(envText, st)) /\ ~IsBlankLine(LineText(envText, st))
    /\ DOMAIN env_vars # {}

\* C6: each non-empty, non-comment line with '=' is cut at its first '=':
\* the trimmed text before it is a key of the mapping and, for the last line
\* of that key, the trimmed text after it, later '=' included, is the value.
C6_SplitAtFirstEquals ==
    (pc = "loaded" /\ envExists) =>
        /\ DOMAIN env_vars =
               {KeyOf(LineText(envText, st)) :
                    st \in {x \in LineStarts(envText) : Assigns(LineText(envText, x))}}
        /\ \A k \in DOMAIN env_vars :
               env_vars[k] = ValueOf(LineText(envText, Greatest(Defining(envText, k))))

\* C6 witness: a loaded value that holds a '=' of its line.
C6_Witness ==
    /\ LoadedForRequest
    /\ envExists
    /\ \E k \in DOMAIN env_vars : FirstEq(env_vars[k]) > 0

\* the file a path other than /config.js names in the program's directory
FileNamed(p) ==
    CASE p = "/config.js?v=1" -> "config.js"
      [] p = "/index.html"    -> "index.html"
      [] p = "/webapp.env"    -> "webapp.env"

OnDisk(name) == IF name = "webapp.env" THEN envExists ELSE name \in staticFiles

BytesOnDisk(name) ==
    IF name = "webapp.env" THEN encode(envText) ELSE encode(FileText(name))

\* C7: the branch is chosen by the path alone.  /config.js gets the
\* generated payload with status 200, type application/javascript and the
\* payload's byte length, whatever files are on disk; any other path gets
\* the bytes of the file it names, or 404 when there is none.
C7_TwoBranches ==
    pc = "sent" =>
        IF path = "/config.js"
        THEN LET payload == PayloadOf([k \in KnownKeys |->
                                IF envExists THEN FileValue(envText, k) ELSE Documented[k]])
             IN  /\ response.status = 200
                 /\ HasHeader(response, "Content-type", "application/javascript")
                 /\ HasHeader(response, "Content-Length", ToString(ByteLength(payload)))
                 /\ Len(response.body) = ByteLength(payload)
                 /\ response.body = encode(payload)
        ELSE IF OnDisk(FileNamed(path))
             THEN response.status = 200 /\ response.body = BytesOnDisk(FileNamed(path))
             ELSE response.status = 404

\* C7 witness: GET /config.js answered with the generated payload while a
\* different config.js lies on disk.
C7_Witness ==
    /\ RespondedConfig
    /\ "config.js" \in staticFiles
    /\ response.status = 200
    /\ response.body # encode(FileText("config.js"))

\* C8: every response written, generated or static, 200 or 404, carries
\* the three CORS headers.
C8_CorsOnEveryResponse ==
    pc = "sent" =>
        /\ HasHeader(response, "Access-Control-Allow-Origin", "*")
        /\ HasHeader(response, "Access-Control-Allow-Methods", "GET, POST, OPTIONS")
        /\ HasHeader(response, "Access-Control-Allow-Headers", "Content-Type")

\* C8 witness: a 404 of the static branch.
C8_Witness ==
    /\ pc = "sent"
    /\ response.status = 404
    /\ HasHeader(response, "Access-Control-Allow-Origin", "*")

\* C9: with external edits, creation and removal of webapp.env interleaved
\* with a request, the request completes without error and its mapping is
\* that of the file as it was at one moment of the load.
C9_AtomicLoad ==
    /\ caller = "handler" => pc # "error"
    /\ LoadedForRequest => \E v \in seen : env_vars = MappingOf(v)

\* C10: for an existing file, the payload shows the default of a known key
\* only when no line defines the key; a key defined with an empty value is
\* shown as '', and of several definitions the last is shown.
C10_DefaultOnlyWhenUndefined ==
    (RespondedConfig /\ envExists) =>
        \A k \in KnownKeys :
            LET lines == Defining(envText, k)
                last  == ValueOf(LineText(envText, Greatest(lines)))
            IN  /\ lines = {} => Shows(response.body, k, Documented[k])
                /\ lines # {} => Shows(response.body, k, last)
                /\ (lines # {} /\ last # Documented[k]) =>
                       ~Shows(response.body, k, Documented[k])

\* C10 witness: a key defined twice, the last time with an empty value,
\* shown as ''.
C10_Witness ==
    /\ RespondedConfig
    /\ envExists
    /\ Cardinality(Defining(envText, "N8N_API_KEY")) = 2
    /\ FileValue(envText, "N8N_API_KEY") = ""
    /\ Shows(response.body, "N8N_API_KEY", "")

====
